---- MODULE Spec2Model ----
(***************************************************************************)
(* A model of the retail analytics dashboard script (analysisfootfall.py). *)
(* One run of the script is one render pass; the sections of the script    *)
(* (load, data prep, the three sidebar filters, KPIs, insights, charts,    *)
(* downloads, footer) are the actions, in program order.                   *)
(*                                                                         *)
(* A table is a sequence of rows; a view of it (df_filtered) is the        *)
(* sequence of the row labels (pandas index) it keeps, in order.           *)
(***************************************************************************)
EXTENDS Integers, Sequences, FiniteSets

\* ------------------------------------------------------------------ bounds
MaxRows == 2
MaxMonth == 3
MaxProducts == 15

\* ------------------------------------------------------------------ cells
\* A numeric cell as read_csv yields it: a number, a missing value, or text.
Num(n) == [k |-> "num", n |-> n]
NaN == [k |-> "nan", n |-> 0]
BadNum == [k |-> "str", n |-> 0]

\* A date cell: a calendar date (month index m, day d), missing, or text
\* that is no date.
Dt(m, d) == [k |-> "date", m |-> m, d |-> d]
NaT == [k |-> "nat", m |-> 0, d |-> 0]
BadDate == [k |-> "str", m |-> 0, d |-> 0]

\* A label cell (Category, Region, Product, OrderID) is a string; read_csv
\* turns the empty field and the text "NaN" alike into the missing value.
NA == "NaN"

\* pd.to_numeric(errors='coerce')
ToNumeric(c) == IF c.k = "num" THEN c ELSE NaN

\* pd.to_datetime(errors='coerce')
ToDatetime(c) == IF c.k = "date" THEN c ELSE NaT

notna(c) == c.k \in {"num", "date"}

DateLE(a, b) == a.m < b.m \/ (a.m = b.m /\ a.d <= b.d)

Range(s) == {s[i] : i \in DOMAIN s}

Min(a, b) == IF a <= b THEN a ELSE b

RECURSIVE SumSet(_, _)
\* The sum of f over the finite set S.
SumSet(S, f) ==
    IF S = {} THEN 0
    ELSE LET x == CHOOSE y \in S : TRUE IN f[x] + SumSet(S \ {x}, f)

\* Series.sum() with skipna: a missing value counts 0.
Val(c) == IF c.k = "num" THEN c.n ELSE 0

\* ------------------------------------------------------------------ tables
\* The columns the script looks at, and a row with none of them filled.
Blank ==
    [OrderDate |-> NaT, Category |-> NA, Region |-> NA, Sales |-> NaN,
     OrderID |-> NA, Product |-> NA, Profit |-> NaN]

\* All tables of at most n rows drawn from the rows U.
Tables(U, n) == UNION {[1..k -> U] : k \in 0..n}

\* An uploaded file as pd.read_csv sees it: it parses (ok) into the columns
\* cols and the rows, or read_csv raises.
Upload(cols, rows) == [present |-> TRUE, ok |-> TRUE, cols |-> cols, rows |-> rows]
Unreadable == [present |-> TRUE, ok |-> FALSE, cols |-> {}, rows |-> <<>>]
NoFile == [present |-> FALSE, ok |-> FALSE, cols |-> {}, rows |-> <<>>]

Days == {1, 2}
AllDates == {Dt(m, d) : m \in 1..MaxMonth, d \in Days}

\* ------------------------------------------------------------------ data prep
numeric_cols == {"Sales", "Quantity", "Profit", "UnitPrice"}

\* Lines 33-46: OrderDate through to_datetime, the numeric columns through
\* to_numeric, each only when the column exists.
Prepare(cols, rows) ==
    [i \in DOMAIN rows |->
        [rows[i] EXCEPT
            !.OrderDate = IF "OrderDate" \in cols THEN ToDatetime(@) ELSE @,
            !.Sales = IF "Sales" \in cols THEN ToNumeric(@) ELSE @,
            !.Profit = IF "Profit" \in cols THEN ToNumeric(@) ELSE @]]

\* ------------------------------------------------------------------ filters
\* df.copy(): every row label, in order.
FullView(t) == [i \in 1..Len(t) |-> i]

ParsedDates(t) == {t[i].OrderDate : i \in {j \in DOMAIN t : notna(t[j].OrderDate)}}

\* The date widget is shown when the column exists and some date parsed.
HasDateWidget(cols, t) == "OrderDate" \in cols /\ ParsedDates(t) # {}

min_date(t) == CHOOSE a \in ParsedDates(t) : \A b \in ParsedDates(t) : DateLE(a, b)
max_date(t) == CHOOSE a \in ParsedDates(t) : \A b \in ParsedDates(t) : DateLE(b, a)

\* What st.date_input can return for a range: no date, one date, or two
\* dates start <= end, all within [min_value, max_value].
DateWindow(t) == {a \in AllDates : DateLE(min_date(t), a) /\ DateLE(a, max_date(t))}
DateInputs(t) ==
    {<<>>} \cup {<<a>> : a \in DateWindow(t)}
    \cup {<<p[1], p[2]>> : p \in {q \in DateWindow(t) \X DateWindow(t) : DateLE(q[1], q[2])}}

\* Line 64: the mask is computed on df; a missing date compares False.
DateMask(t, dr) ==
    [i \in DOMAIN t |->
        /\ notna(t[i].OrderDate)
        /\ DateLE(dr[1], t[i].OrderDate)
        /\ DateLE(t[i].OrderDate, dr[2])]

\* Lines 62-67: a selection of two dates filters, anything else is skipped.
ApplyDate(t, view, dr) ==
    IF Len(dr) = 2
    THEN LET mask == DateMask(t, dr) IN SelectSeq(view, LAMBDA i : mask[i])
    ELSE view

\* df_filtered[col].dropna().unique(): the options of a multiselect.
Options(t, view, col) == {t[i][col] : i \in Range(view)} \ {NA}

\* ApplyIsin with the selection made on the loaded table instead of on the
\* view the earlier stages left.
ApplyIsinOnTable(t, view, col, selected) ==
    IF selected # {}
    THEN SelectSeq([i \in 1..Len(t) |-> i], LAMBDA i : t[i][col] \in selected)
    ELSE view

\* Lines 76-79 and 88-91: a non-empty selection keeps the rows whose value
\* is selected (isin), an empty one keeps the view.
ApplyIsin(t, view, col, selected) ==
    IF selected # {}
    THEN SelectSeq(view, LAMBDA i : t[i][col] \in selected)
    ELSE view

\* ------------------------------------------------------------------ KPIs
\* SumCol with the column summed over the loaded table instead of the view.
SumColOfTable(t, view, col) == SumSet(DOMAIN t, [i \in DOMAIN t |-> Val(t[i][col])])

RECURSIVE SumCol(_, _, _)
\* df_filtered[col].sum(): the column summed over the view, row by row.
SumCol(t, view, col) ==
    IF view = <<>> THEN 0
    ELSE Val(t[Head(view)][col]) + SumCol(t, Tail(view), col)

\* df_filtered['OrderID'].nunique(): distinct values, missing ones dropped.
nunique(t, view, col) == Cardinality({t[i][col] : i \in Range(view)} \ {NA})

\* A quotient kept exact: num / den.
Quot(a, b) == [num |-> a, den |-> b]
Zero == [num |-> 0, den |-> 1]

\* AvgOrderValue without the guard of line 97.
AvgOrderValueUnguarded(sales, orders) == Quot(sales, orders)

\* Line 97: the guarded division.
AvgOrderValue(sales, orders) == IF orders > 0 THEN Quot(sales, orders) ELSE Zero

\* ------------------------------------------------------------------ insights
\* groupby(col)['Sales'].sum(): one group per value present in the view
\* (rows with a missing key are left out), keys in sorted order.
Groups(t, view, col) == {t[i][col] : i \in Range(view)} \ {NA}
GroupSum(t, view, col, g) ==
    SumCol(t, SelectSeq(view, LAMBDA i : t[i][col] = g), "Sales")

\* The sort order of the labels the model uses.
LabelOrder ==
    <<"A", "B", "E", "W", "o1", "o2",
      "p01", "p02", "p03", "p04", "p05", "p06", "p07", "p08", "p09", "p10",
      "p11", "p12", "p13", "p14", "p15", "p16", "p17">>
Rank(l) == CHOOSE i \in DOMAIN LabelOrder : LabelOrder[i] = l

\* Series.max() and Series.idxmax(): the largest sum, and the first key, in
\* the sorted order of the keys, that has it.
MaxSum(t, view, col) ==
    CHOOSE v \in {GroupSum(t, view, col, g) : g \in Groups(t, view, col)} :
        \A g \in Groups(t, view, col) : GroupSum(t, view, col, g) <= v
idxmax(t, view, col) ==
    CHOOSE g \in Groups(t, view, col) :
        /\ GroupSum(t, view, col, g) = MaxSum(t, view, col)
        /\ \A h \in Groups(t, view, col) :
              GroupSum(t, view, col, h) = MaxSum(t, view, col) => Rank(g) <= Rank(h)

\* Line 123: dropna(subset=['OrderDate']).set_index('OrderDate')
\* .resample('M')['Sales'].sum(): one bucket per calendar month from the
\* month of the earliest row to the month of the latest, a month without
\* rows included with sum 0.
DatedRows(t, view) == SelectSeq(view, LAMBDA i : notna(t[i].OrderDate))
MonthsOf(t, view) == {t[i].OrderDate.m : i \in Range(DatedRows(t, view))}
FirstMonth(t, view) == CHOOSE a \in MonthsOf(t, view) : \A b \in MonthsOf(t, view) : a <= b
LastMonth(t, view) == CHOOSE a \in MonthsOf(t, view) : \A b \in MonthsOf(t, view) : b <= a
MonthSum(t, view, m) ==
    SumCol(t, SelectSeq(view, LAMBDA i : notna(t[i].OrderDate) /\ t[i].OrderDate.m = m), "Sales")
ResampleMonthly(t, view) ==
    IF MonthsOf(t, view) = {} THEN <<>>
    ELSE [k \in 1..(LastMonth(t, view) - FirstMonth(t, view) + 1) |->
            MonthSum(t, view, FirstMonth(t, view) + k - 1)]

Insight(kind, label, value) == [kind |-> kind, label |-> label, value |-> value]

\* Lines 110-114.
RegionInsight(cols, t, view) ==
    IF "Region" \in cols /\ "Sales" \in cols /\ Groups(t, view, "Region") # {}
    THEN <<Insight("region", idxmax(t, view, "Region"), MaxSum(t, view, "Region"))>>
    ELSE <<>>

\* CategoryInsight made to depend on the region heuristic having a group.
CategoryInsightNested(cols, t, view) ==
    IF /\ "Region" \in cols /\ "Sales" \in cols /\ Groups(t, view, "Region") # {}
       /\ "Category" \in cols /\ Groups(t, view, "Category") # {}
    THEN <<Insight("category", idxmax(t, view, "Category"), 0)>>
    ELSE <<>>

\* Lines 116-120.
CategoryInsight(cols, t, view) ==
    IF "Category" \in cols /\ "Sales" \in cols /\ Groups(t, view, "Category") # {}
    THEN <<Insight("category", idxmax(t, view, "Category"), 0)>>
    ELSE <<>>

\* TrendOf with the comparison not strict.
TrendOfNonStrict(sot) ==
    IF Len(sot) > 1
    THEN IF sot[Len(sot)] >= sot[Len(sot) - 1]
         THEN <<Insight("trend", "increasing", 0)>>
         ELSE <<Insight("trend", "declining", 0)>>
    ELSE <<>>

\* Lines 124-128: the last bucket against the one before it.
TrendOf(sot) ==
    IF Len(sot) > 1
    THEN IF sot[Len(sot)] > sot[Len(sot) - 1]
         THEN <<Insight("trend", "increasing", 0)>>
         ELSE <<Insight("trend", "declining", 0)>>
    ELSE <<>>

\* Lines 122-128.
TrendInsight(cols, t, view) ==
    IF "OrderDate" \in cols /\ "Sales" \in cols
    THEN TrendOf(ResampleMonthly(t, view))
    ELSE <<>>

\* ------------------------------------------------------------------ charts
TopN == 10

RECURSIVE SortedDescending(_, _)
\* sort_values(ascending=False): every order of the keys S in which the
\* sums never increase; the order among equal sums is the sort's choice.
SortedDescending(S, sums) ==
    IF S = {} THEN {<<>>}
    ELSE LET top == {g \in S : \A h \in S : sums[h] <= sums[g]}
         IN UNION {{<<g>> \o rest : rest \in SortedDescending(S \ {g}, sums)} : g \in top}

\* head taking one entry too few.
headShort(s, n) == SubSeq(s, 1, Min(n - 1, Len(s)))

\* .head(n)
head(s, n) == SubSeq(s, 1, Min(n, Len(s)))

\* Line 155: groupby('Product')['Sales'].sum().sort_values(ascending=False)
\* .head(10), as the (product, sum) pairs of the series, for each order the
\* sort may produce.
TopProducts(t, view) ==
    LET sums == [g \in Groups(t, view, "Product") |-> GroupSum(t, view, "Product", g)]
    IN {[k \in DOMAIN head(order, TopN) |-> [Product |-> order[k], Sales |-> sums[order[k]]]] :
            order \in SortedDescending(DOMAIN sums, sums)}

\* Lines 140-199: what the five chart builders emit.
ChartTime(cols, t, view) ==
    IF "OrderDate" \in cols /\ "Sales" \in cols
    THEN IF DatedRows(t, view) # <<>> THEN <<"chart_time">> ELSE <<"warn_time">>
    ELSE <<>>
ChartTop(cols, top) ==
    IF "Product" \in cols /\ "Sales" \in cols
    THEN IF top # <<>> THEN <<"chart_top">> ELSE <<"warn_top">>
    ELSE <<>>
ChartBy(cols, t, view, col) ==
    IF col \in cols /\ "Sales" \in cols
    THEN IF Groups(t, view, col) # {} THEN <<"chart_" \o col>> ELSE <<"warn_" \o col>>
    ELSE <<>>
ChartCorr(cols) ==
    IF Cardinality(cols \cap numeric_cols) > 1 THEN <<"chart_corr">> ELSE <<>>

\* ------------------------------------------------------------------ report
NoInsight == Insight("", "", 0)
Line(kind, n, v, ins) == [kind |-> kind, n |-> n, v |-> v, ins |-> ins]
Text(kind) == Line(kind, 0, Zero, NoInsight)
Metric(kind, v) == Line(kind, 0, v, NoInsight)

BlankLine == Text("")
FooterLine == Text("----- END OF REPORT -----")

RECURSIVE JoinLines(_)
\* "\n".join(report), read back as lines: an entry is the lines it holds,
\* and an entry with a line break in it holds more than one.
JoinLines(entries) ==
    IF entries = <<>> THEN <<>> ELSE Head(entries) \o JoinLines(Tail(entries))

\* InsightEntries numbering from 0.
InsightEntriesFromZero(ins) ==
    IF ins # <<>>
    THEN [i \in DOMAIN ins |-> <<Line("insight", i - 1, Zero, ins[i])>>]
    ELSE << <<Text("No insights available.")>> >>

\* Lines 228-231: one numbered entry per insight (enumerate from 0, shown
\* as i+1), or the placeholder.
InsightEntries(ins) ==
    IF ins # <<>>
    THEN [i \in DOMAIN ins |-> <<Line("insight", (i - 1) + 1, Zero, ins[i])>>]
    ELSE << <<Text("No insights available.")>> >>

\* Lines 214-232: the entries of the report list, each as its lines.
ReportEntries(sales, orders, avg, profit, ins) ==
    << <<Text("==================================")>>,
       <<Text("    RETAIL ANALYTICS REPORT")>>,
       <<Text("==================================")>>,
       <<Text("Generated on: %Y-%m-%d %H:%M")>>,
       <<BlankLine>>,
       <<Text("----- KEY METRICS -----")>>,
       <<Metric("Total Sales      : $", Quot(sales, 1))>>,
       <<Metric("Total Orders     : ", Quot(orders, 1))>>,
       <<Metric("Avg Order Value  : $", avg)>>,
       <<Metric("Total Profit     : $", Quot(profit, 1))>>,
       <<BlankLine>>,
       <<Text("----- INSIGHTS -----")>> >>
    \o InsightEntries(ins)
    \o << <<BlankLine, FooterLine>> >>

\* ------------------------------------------------------------------ state
VARIABLES
    pc,               \* the section of the script the run is at
    file,             \* uploaded_file, as read_csv sees it
    df,               \* the loaded table
    date_range,       \* the sidebar selections of this run
    categories,
    regions,
    df_filtered,      \* the filtered view: the row labels of df it keeps
    total_sales,
    total_orders,
    avg_order_value,
    total_profit,
    sales_over_time,  \* the monthly buckets of the trend heuristic
    insights,
    top_products,
    report,           \* the lines of txt_data, when the report was asked for
    out,              \* what the run has put on the page, in order
    raised            \* the section whose exception the handler caught

vars ==
    <<pc, file, df, date_range, categories, regions, df_filtered, total_sales,
      total_orders, avg_order_value, total_profit, sales_over_time, insights,
      top_products, report, out, raised>>

\* The sections inside the try block, in program order.
Stages ==
    <<"load", "prep", "date", "category", "region", "kpis", "insights",
      "charts", "export">>
StageNo(s) == CHOOSE i \in DOMAIN Stages : Stages[i] = s

\* A fresh run of the script: lines 15-19 are on the page, nothing else is
\* bound yet.
Fresh ==
    /\ pc = "load"
    /\ df = <<>>
    /\ date_range = <<>>
    /\ categories = {}
    /\ regions = {}
    /\ df_filtered = <<>>
    /\ total_sales = 0
    /\ total_orders = 0
    /\ avg_order_value = Zero
    /\ total_profit = 0
    /\ sales_over_time = <<>>
    /\ insights = <<>>
    /\ top_products = <<>>
    /\ report = <<>>
    /\ out = <<"title", "uploader">>
    /\ raised = "none"

InitWith(files) == file \in files /\ Fresh

\* Line 248: no file uploaded.
NoUpload ==
    /\ pc = "load"
    /\ ~file.present
    /\ out' = Append(out, "info_upload")
    /\ pc' = "footer"
    /\ UNCHANGED <<file, df, date_range, categories, regions, df_filtered,
                   total_sales, total_orders, avg_order_value, total_profit,
                   sales_over_time, insights, top_products, report, raised>>

\* Lines 24-29: read_csv and the preview.
Load ==
    /\ pc = "load"
    /\ file.present /\ file.ok
    /\ df' = file.rows
    /\ out' = out \o <<"success", "shape", "head">>
    /\ pc' = "prep"
    /\ UNCHANGED <<file, date_range, categories, regions, df_filtered,
                   total_sales, total_orders, avg_order_value, total_profit,
                   sales_over_time, insights, top_products, report, raised>>

\* Lines 33-46: data prep.
DataPrep ==
    /\ pc = "prep"
    /\ df' = Prepare(file.cols, df)
    /\ out' = Append(out,
            IF "OrderDate" \in file.cols
            THEN IF ParsedDates(Prepare(file.cols, df)) = {}
                 THEN "warn_dates_unparsed" ELSE "info_dates_parsed"
            ELSE "warn_no_orderdate")
    /\ pc' = "date"
    /\ UNCHANGED <<file, date_range, categories, regions, df_filtered,
                   total_sales, total_orders, avg_order_value, total_profit,
                   sales_over_time, insights, top_products, report, raised>>

\* Lines 49-67: the copy of df and the date filter.
DateFilter ==
    /\ pc = "date"
    /\ IF HasDateWidget(file.cols, df)
       THEN \E dr \in DateInputs(df) :
               /\ date_range' = dr
               /\ df_filtered' = ApplyDate(df, FullView(df), dr)
               /\ out' = IF Len(dr) = 2 THEN out ELSE Append(out, "warn_date_range")
       ELSE /\ df_filtered' = FullView(df)
            /\ UNCHANGED <<date_range, out>>
    /\ pc' = "category"
    /\ UNCHANGED <<file, df, categories, regions, total_sales, total_orders,
                   avg_order_value, total_profit, sales_over_time, insights,
                   top_products, report, raised>>

\* Lines 70-79: the category filter.
CategoryFilter ==
    /\ pc = "category"
    /\ IF "Category" \in file.cols
       THEN \E sel \in SUBSET Options(df, df_filtered, "Category") :
               /\ categories' = sel
               /\ df_filtered' = ApplyIsin(df, df_filtered, "Category", sel)
               /\ out' = IF sel # {} THEN out ELSE Append(out, "warn_no_category")
       ELSE UNCHANGED <<categories, df_filtered, out>>
    /\ pc' = "region"
    /\ UNCHANGED <<file, df, date_range, regions, total_sales, total_orders,
                   avg_order_value, total_profit, sales_over_time, insights,
                   top_products, report, raised>>

\* Lines 82-91: the region filter.
RegionFilter ==
    /\ pc = "region"
    /\ IF "Region" \in file.cols
       THEN \E sel \in SUBSET Options(df, df_filtered, "Region") :
               /\ regions' = sel
               /\ df_filtered' = ApplyIsin(df, df_filtered, "Region", sel)
               /\ out' = IF sel # {} THEN out ELSE Append(out, "warn_no_region")
       ELSE UNCHANGED <<regions, df_filtered, out>>
    /\ pc' = "kpis"
    /\ UNCHANGED <<file, df, date_range, categories, total_sales, total_orders,
                   avg_order_value, total_profit, sales_over_time, insights,
                   top_products, report, raised>>

\* Lines 95-104: the four metrics and their cards.
KPIs ==
    /\ pc = "kpis"
    /\ total_sales' = IF "Sales" \in file.cols THEN SumCol(df, df_filtered, "Sales") ELSE 0
    /\ total_orders' =
            IF "OrderID" \in file.cols
            THEN nunique(df, df_filtered, "OrderID")
            ELSE Len(df_filtered)
    /\ avg_order_value' = AvgOrderValue(total_sales', total_orders')
    /\ total_profit' = IF "Profit" \in file.cols THEN SumCol(df, df_filtered, "Profit") ELSE 0
    /\ out' = Append(out, "metrics")
    /\ pc' = "insights"
    /\ UNCHANGED <<file, df, date_range, categories, regions, df_filtered,
                   sales_over_time, insights, top_products, report, raised>>

\* Lines 108-134: the insight list, from empty, and its display.
Insights ==
    /\ pc = "insights"
    /\ sales_over_time' =
            IF "OrderDate" \in file.cols /\ "Sales" \in file.cols
            THEN ResampleMonthly(df, df_filtered) ELSE <<>>
    /\ insights' =
            RegionInsight(file.cols, df, df_filtered)
            \o CategoryInsight(file.cols, df, df_filtered)
            \o TrendInsight(file.cols, df, df_filtered)
    /\ out' = out \o (IF insights' # <<>>
                      THEN [i \in DOMAIN insights' |-> "insight"]
                      ELSE <<"no_insights">>)
    /\ pc' = "charts"
    /\ UNCHANGED <<file, df, date_range, categories, regions, df_filtered,
                   total_sales, total_orders, avg_order_value, total_profit,
                   top_products, report, raised>>

\* Lines 137-199: the five charts.
Charts ==
    /\ pc = "charts"
    /\ IF "Product" \in file.cols /\ "Sales" \in file.cols
       THEN top_products' \in TopProducts(df, df_filtered)
       ELSE UNCHANGED top_products
    /\ out' = out \o ChartTime(file.cols, df, df_filtered)
                  \o ChartTop(file.cols, top_products')
                  \o ChartBy(file.cols, df, df_filtered, "Category")
                  \o ChartBy(file.cols, df, df_filtered, "Region")
                  \o ChartCorr(file.cols)
    /\ pc' = "export"
    /\ UNCHANGED <<file, df, date_range, categories, regions, df_filtered,
                   total_sales, total_orders, avg_order_value, total_profit,
                   sales_over_time, insights, report, raised>>

\* Lines 202-242: the CSV summary, the text report when its button is
\* pressed, the raw table when its box is ticked.
Export ==
    /\ pc = "export"
    /\ \E button \in BOOLEAN, show_raw \in BOOLEAN :
        /\ report' =
              IF button
              THEN JoinLines(ReportEntries(total_sales, total_orders,
                                           avg_order_value, total_profit, insights))
              ELSE report
        /\ out' = out \o <<"csv_download">>
                      \o (IF button THEN <<"report_link">> ELSE <<>>)
                      \o (IF show_raw THEN <<"raw_table">> ELSE <<>>)
    /\ pc' = "footer"
    /\ UNCHANGED <<file, df, date_range, categories, regions, df_filtered,
                   total_sales, total_orders, avg_order_value, total_profit,
                   sales_over_time, insights, top_products, raised>>

\* ExceptHandler as a handler around each section: the error is shown and
\* the script goes on with the next section.
ExceptHandlerContinue ==
    /\ pc \in Range(Stages)
    /\ file.present /\ file.ok
    /\ raised' = pc
    /\ out' = out \o <<"error", "code">>
    /\ pc' = IF pc = "export" THEN "footer" ELSE Stages[StageNo(pc) + 1]
    /\ UNCHANGED <<file, df, date_range, categories, regions, df_filtered,
                   total_sales, total_orders, avg_order_value, total_profit,
                   sales_over_time, insights, top_products, report>>

\* Lines 244-246: an exception raised in any section of the try block (by
\* read_csv on a file it cannot parse, or by any library call further down)
\* ends the block; the handler shows it and the script goes on after it.
ExceptHandler ==
    /\ pc \in Range(Stages)
    /\ file.present
    /\ raised' = pc
    /\ out' = out \o <<"error", "code">>
    /\ pc' = "footer"
    /\ UNCHANGED <<file, df, date_range, categories, regions, df_filtered,
                   total_sales, total_orders, avg_order_value, total_profit,
                   sales_over_time, insights, top_products, report>>

\* Lines 251-252: the footer; the run ends and its names are gone, the page
\* stays.
Footer ==
    /\ pc = "footer"
    /\ out' = Append(out, "footer")
    /\ pc' = "done"
    /\ df' = <<>>
    /\ date_range' = <<>>
    /\ categories' = {}
    /\ regions' = {}
    /\ df_filtered' = <<>>
    /\ total_sales' = 0
    /\ total_orders' = 0
    /\ avg_order_value' = Zero
    /\ total_profit' = 0
    /\ sales_over_time' = <<>>
    /\ insights' = <<>>
    /\ top_products' = <<>>
    /\ report' = <<>>
    /\ UNCHANGED <<file, raised>>

\* The next interaction: the script runs again from its first line.
Rerun ==
    /\ pc = "done"
    /\ pc' = "load"
    /\ out' = <<"title", "uploader">>
    /\ raised' = "none"
    /\ UNCHANGED <<file, df, date_range, categories, regions, df_filtered,
                   total_sales, total_orders, avg_order_value, total_profit,
                   sales_over_time, insights, top_products, report>>

Next ==
    \/ NoUpload
    \/ Load
    \/ DataPrep
    \/ DateFilter
    \/ CategoryFilter
    \/ RegionFilter
    \/ KPIs
    \/ Insights
    \/ Charts
    \/ Export
    \/ ExceptHandler
    \/ Footer
    \/ Rerun

\* ------------------------------------------------------------------ inputs
\* Tables for the filters: dates, categories and regions present or
\* missing, every row with the same sale.
FilterDates == {NaT, Dt(1, 1), Dt(2, 1)}
RowsDateCategory ==
    {[Blank EXCEPT !.OrderDate = d, !.Category = c, !.Sales = Num(100)] :
        d \in FilterDates, c \in {NA, "A", "B"}}
RowsCategoryRegion ==
    {[Blank EXCEPT !.Category = c, !.Region = r, !.Sales = Num(100)] :
        c \in {NA, "A", "B"}, r \in {NA, "E", "W"}}
RowsDateCategoryRegion ==
    {[Blank EXCEPT !.OrderDate = d, !.Category = c, !.Region = r, !.Sales = Num(100)] :
        d \in FilterDates, c \in {NA, "A"}, r \in {NA, "E"}}
FilterFiles ==
    {Upload({"OrderDate", "Category", "Sales"}, rows) :
        rows \in Tables(RowsDateCategory, MaxRows)}
    \cup {Upload({"Category", "Region", "Sales"}, rows) :
        rows \in Tables(RowsCategoryRegion, MaxRows)}
    \cup {Upload({"OrderDate", "Category", "Region", "Sales"}, rows) :
        rows \in Tables(RowsDateCategoryRegion, MaxRows)}
    \cup {Unreadable, NoFile}

InitFilter == InitWith(FilterFiles)
SpecFilter == InitFilter /\ [][Next]_vars

\* Tables for the metrics: sales that are numbers, missing or text, order
\* identifiers repeated or missing, with a category or a date to filter on.
RowsCategorySalesOrder ==
    {[Blank EXCEPT !.Category = c, !.Sales = s, !.Profit = s, !.OrderID = o] :
        c \in {"A", "B"}, s \in {BadNum, Num(100), Num(150)}, o \in {NA, "o1", "o2"}}
RowsDateSalesOrder ==
    {[Blank EXCEPT !.OrderDate = d, !.Sales = s, !.OrderID = o] :
        d \in {Dt(1, 1), Dt(2, 1)}, s \in {NaN, Num(100)}, o \in {NA, "o1"}}
\* The rows as a file without the columns outside cols holds them.
Restrict(rows, cols) ==
    {[c \in DOMAIN Blank |-> IF c \in cols THEN r[c] ELSE Blank[c]] : r \in rows}
MetricsFiles ==
    {Upload({"Category", "Sales", "Profit", "OrderID"}, rows) :
        rows \in Tables(RowsCategorySalesOrder, MaxRows)}
    \cup {Upload({"Category", "Sales"}, rows) :
        rows \in Tables(Restrict(RowsCategorySalesOrder, {"Category", "Sales"}), MaxRows)}
    \cup {Upload({"Category", "OrderID"}, rows) :
        rows \in Tables(Restrict(RowsCategorySalesOrder, {"Category", "OrderID"}), MaxRows)}
    \cup {Upload({"OrderDate", "Sales", "OrderID"}, rows) :
        rows \in Tables(RowsDateSalesOrder, MaxRows)}
    \cup {Unreadable, NoFile}

InitMetrics == InitWith(MetricsFiles)
SpecMetrics == InitMetrics /\ [][Next]_vars

\* Tables for the insights: dated sales over three months, with a month
\* that may have no rows, and regions and categories present, missing or
\* without their column.
RowsDateSales ==
    {[Blank EXCEPT !.OrderDate = d, !.Sales = s] :
        d \in {BadDate, Dt(1, 1), Dt(2, 1), Dt(3, 1), Dt(3, 2)},
        s \in {Num(100), Num(150)}}
RowsRegionCategoryDate ==
    {[Blank EXCEPT !.Region = r, !.Category = c, !.OrderDate = d, !.Sales = Num(100)] :
        r \in {NA, "E"}, c \in {NA, "A"}, d \in {NaT, Dt(1, 1), Dt(2, 1)}}
InsightSchemas ==
    {{"Region", "Category", "OrderDate", "Sales"},
     {"Region", "Category", "OrderDate"},
     {"Category", "OrderDate", "Sales"},
     {"Region", "OrderDate", "Sales"},
     {"Region", "Category", "Sales"}}
InsightFiles ==
    {Upload({"OrderDate", "Sales"}, rows) : rows \in Tables(RowsDateSales, MaxRows)}
    \cup UNION {{Upload(cols, rows) :
                    rows \in Tables(Restrict(RowsRegionCategoryDate, cols), MaxRows)} :
                cols \in InsightSchemas}
    \cup {Unreadable, NoFile}

InitInsights == InitWith(InsightFiles)
SpecInsights == InitInsights /\ [][Next]_vars

\* Tables for the top products: n products, one or two rows each, with
\* totals that fall, rise or tie (the first two, and the two on either side
\* of the cut), and rows without a product or
\* without a sale.
ProductNames ==
    <<"p01", "p02", "p03", "p04", "p05", "p06", "p07", "p08", "p09", "p10",
      "p11", "p12", "p13", "p14", "p15", "p16", "p17">>
ProductRow(p, s) == [Blank EXCEPT !.Product = p, !.Sales = s]
Falling(n) == [k \in 1..n |-> ProductRow(ProductNames[k], Num((n - k + 1) * 10))]
Rising(n) == [k \in 1..n |-> ProductRow(ProductNames[k], Num(k * 10))]
Tied(n) ==
    [k \in 1..n |->
        ProductRow(ProductNames[k],
                   Num((n - (IF k \in {2, TopN + 1} THEN k - 1 ELSE k) + 1) * 10))]
Stray == <<ProductRow(NA, Num(1000)), ProductRow("p01", BadNum)>>
ProductTables ==
    UNION {{Falling(n), Rising(n), Tied(n), Falling(n) \o Falling(n \div 2),
            Stray \o Falling(n), Rising(n) \o Stray} : n \in 0..MaxProducts}
ProductFiles ==
    {Upload({"Product", "Sales"}, rows) : rows \in ProductTables}
    \cup {Upload({"Product", "Category", "Sales"},
                 [k \in DOMAIN rows |-> [rows[k] EXCEPT !.Category = IF k % 2 = 0 THEN "A" ELSE "B"]]) :
            rows \in {Falling(n) : n \in 0..MaxProducts}}
    \cup {Upload({"Product", "OrderDate", "Region", "Sales"},
                 [k \in DOMAIN rows |->
                    [rows[k] EXCEPT !.OrderDate = Dt(1 + (k % 2), 1),
                                    !.Region = IF k % 3 = 0 THEN NA ELSE "E"]]) :
            rows \in {Rising(n) : n \in 0..MaxProducts}}
    \cup {Unreadable, NoFile}

InitTop == InitWith(ProductFiles)
SpecTop == InitTop /\ [][Next]_vars

Init == InitFilter \/ InitMetrics \/ InitInsights \/ InitTop
Spec == Init /\ [][Next]_vars

\* ------------------------------------------------------------------ claims
\* The three stage predicates, each read off the selections of the run and
\* evaluated on a row of the loaded table; a stage without its column,
\* without a two-date range or with nothing selected lets every row pass.
DatePasses(i) ==
    ("OrderDate" \in file.cols /\ Len(date_range) = 2) =>
        /\ df[i].OrderDate.k = "date"
        /\ DateLE(date_range[1], df[i].OrderDate)
        /\ DateLE(df[i].OrderDate, date_range[2])
CategoryPasses(i) ==
    ("Category" \in file.cols /\ categories # {}) => df[i].Category \in categories
RegionPasses(i) ==
    ("Region" \in file.cols /\ regions # {}) => df[i].Region \in regions
PassingSet == {i \in DOMAIN df : DatePasses(i) /\ CategoryPasses(i) /\ RegionPasses(i)}
PassingRows == SelectSeq([i \in 1..Len(df) |-> i], LAMBDA i : i \in PassingSet)

FiltersDone == pc \in {"kpis", "insights", "charts", "export"}
MetricsDone == pc \in {"insights", "charts", "export"}
InsightsDone == pc \in {"charts", "export"}

\* The view each filter stage started from, recomputed from the selections.
AfterDate == ApplyDate(df, FullView(df), date_range)
AfterCategory ==
    IF "Category" \in file.cols
    THEN ApplyIsin(df, AfterDate, "Category", categories)
    ELSE AfterDate

\* C1: with every offered category selected the filtered view is the one
\* the same run gives with no category selected (the date and region
\* selections being the same), and likewise for the regions.
C1_ZeroSelectionIsAllSelection ==
    pc = "kpis" =>
        /\ ("Category" \in file.cols /\ categories = Options(df, AfterDate, "Category"))
              => df_filtered =
                    (IF "Region" \in file.cols
                     THEN ApplyIsin(df, AfterDate, "Region", regions)
                     ELSE AfterDate)
        /\ ("Region" \in file.cols /\ regions = Options(df, AfterCategory, "Region"))
              => df_filtered = AfterCategory

\* C2: once the three stages have run in sequence, the filtered view holds
\* exactly the rows of the loaded table that satisfy the conjunction of the
\* three stage predicates, in table order.
C2_SequentialIsConjunction == FiltersDone => df_filtered = PassingRows

\* C2 witness: all three stages filter, and rows are both kept and dropped.
C2_Witness ==
    /\ pc = "kpis"
    /\ Len(date_range) = 2 /\ categories # {} /\ regions # {}
    /\ df_filtered # <<>>
    /\ Len(df_filtered) < Len(df)

\* C3: total sales is the sum of the Sales values, a missing one counting
\* 0, of exactly the rows that pass all active filters, and 0 when there is
\* no Sales column.
C3_TotalSalesOverPassingRows ==
    MetricsDone =>
        total_sales =
            IF "Sales" \in file.cols
            THEN SumSet(PassingSet, [i \in DOMAIN df |-> IF df[i].Sales.k = "num" THEN df[i].Sales.n ELSE 0])
            ELSE 0

\* C3 witness: a filter drops a row that has a sale, and sales remain.
C3_Witness ==
    /\ pc = "insights"
    /\ "Sales" \in file.cols
    /\ total_sales > 0
    /\ \E i \in DOMAIN df : i \notin PassingSet /\ df[i].Sales.k = "num"

\* C4: with the date range at its default [min, max] and both multi-selects
\* at their default (every offered value), the filtered view holds every
\* row of the loaded table.
C4_DefaultsSelectEverything ==
    ( /\ pc = "kpis"
      /\ HasDateWidget(file.cols, df) => date_range = <<min_date(df), max_date(df)>>
      /\ "Category" \in file.cols => categories = Options(df, AfterDate, "Category")
      /\ "Region" \in file.cols => regions = Options(df, AfterCategory, "Region") )
    => df_filtered = [i \in 1..Len(df) |-> i]

\* C6: total orders is the number of distinct order identifiers when there
\* is an OrderID column and the row count of the view otherwise; the
\* average order value is 0 when total orders is 0 and total sales over
\* total orders otherwise; no quotient with divisor 0 is ever formed.
C6_OrdersAndAverage ==
    /\ avg_order_value.den # 0
    /\ MetricsDone =>
        /\ total_orders =
              IF "OrderID" \in file.cols
              THEN Cardinality({o \in Range(LabelOrder) :
                                  \E i \in Range(df_filtered) : df[i].OrderID = o})
              ELSE Len(df_filtered)
        /\ total_orders = 0 => avg_order_value = [num |-> 0, den |-> 1]
        /\ total_orders # 0 => avg_order_value = [num |-> total_sales, den |-> total_orders]

\* C6 witness: a view with rows and sales whose order identifiers are all
\* missing.
C6_Witness ==
    /\ pc = "insights"
    /\ "OrderID" \in file.cols
    /\ df_filtered # <<>>
    /\ total_sales > 0
    /\ total_orders = 0

\* The months in which the view has a dated row, and the sales of a month.
DatedMonths ==
    {m \in 1..MaxMonth :
        \E i \in Range(df_filtered) : df[i].OrderDate.k = "date" /\ df[i].OrderDate.m = m}
MonthTotal(m) ==
    SumSet({i \in Range(df_filtered) : df[i].OrderDate.k = "date" /\ df[i].OrderDate.m = m},
           [i \in DOMAIN df |-> IF df[i].Sales.k = "num" THEN df[i].Sales.n ELSE 0])
Latest == CHOOSE m \in DatedMonths : \A n \in DatedMonths : n <= m
PreviousWithRows ==
    CHOOSE m \in DatedMonths \ {Latest} : \A n \in DatedMonths \ {Latest} : n <= m
TrendLabels == {insights[i].label : i \in {j \in DOMAIN insights : insights[j].kind = "trend"}}
Verdict(latest, previous) == IF latest > previous THEN "increasing" ELSE "declining"

\* C5 as stated: the trend insight is emitted exactly when at least two
\* months have dated rows, and it compares the sums of the two most recent
\* months that have rows.
C5_ComparesMonthsWithRows ==
    (InsightsDone /\ "OrderDate" \in file.cols /\ "Sales" \in file.cols) =>
        /\ TrendLabels # {} <=> Cardinality(DatedMonths) >= 2
        /\ Cardinality(DatedMonths) >= 2 =>
              TrendLabels = {Verdict(MonthTotal(Latest), MonthTotal(PreviousWithRows))}

\* C5 as amended: the trend insight is emitted exactly when at least two
\* months have dated rows, and it compares the sum of the latest month that
\* has rows with the sum of the calendar month just before it, which is 0
\* when that month has no rows: "increasing" when strictly greater,
\* "declining" otherwise, so 100 then 150 gives "increasing" and 100 then
\* 100 gives "declining".
C5_ComparesCalendarMonths ==
    (InsightsDone /\ "OrderDate" \in file.cols /\ "Sales" \in file.cols) =>
        /\ TrendLabels # {} <=> Cardinality(DatedMonths) >= 2
        /\ Cardinality(DatedMonths) >= 2 =>
              /\ TrendLabels = {Verdict(MonthTotal(Latest), MonthTotal(Latest - 1))}
              /\ (MonthTotal(Latest - 1) = 100 /\ MonthTotal(Latest) = 150)
                    => TrendLabels = {"increasing"}
              /\ (MonthTotal(Latest - 1) = 100 /\ MonthTotal(Latest) = 100)
                    => TrendLabels = {"declining"}

\* C5 witness: rows in the first and the third month and none in the
\* second, the latest month selling less than the first.
C5_Witness ==
    /\ pc = "charts"
    /\ DatedMonths = {1, 3}
    /\ MonthTotal(3) < MonthTotal(1)
    /\ TrendLabels = {"increasing"}

Kinds == [i \in DOMAIN insights |-> insights[i].kind]
KindNo(k) == CHOOSE n \in 1..3 : <<"region", "category", "trend">>[n] = k
HasKind(k) == \E i \in DOMAIN insights : insights[i].kind = k

\* C7: the insight list holds 0 to 3 entries, at most one of each kind, in
\* the order region, category, trend; each heuristic yields its entry
\* exactly when its own columns are present and its own grouping is not
\* empty, whatever the others do; the "no insights" notice is shown exactly
\* when the list is empty.
C7_InsightListShape ==
    InsightsDone =>
        /\ Len(insights) <= 3
        /\ \A i \in DOMAIN insights : insights[i].kind \in {"region", "category", "trend"}
        /\ \A i, j \in DOMAIN insights : i < j => KindNo(Kinds[i]) < KindNo(Kinds[j])
        /\ HasKind("region") <=>
              /\ "Region" \in file.cols /\ "Sales" \in file.cols
              /\ \E i \in Range(df_filtered) : df[i].Region # NA
        /\ HasKind("category") <=>
              /\ "Category" \in file.cols /\ "Sales" \in file.cols
              /\ \E i \in Range(df_filtered) : df[i].Category # NA
        /\ HasKind("trend") <=>
              /\ "OrderDate" \in file.cols /\ "Sales" \in file.cols
              /\ Cardinality(DatedMonths) >= 2
        /\ ("no_insights" \in Range(out)) <=> insights = <<>>
        /\ Cardinality({i \in DOMAIN out : out[i] = "insight"}) = Len(insights)

\* C7 witness: the category heuristic has its columns but no group and is
\* skipped, the region and trend heuristics before and after it are not.
C7_Witness ==
    /\ pc = "charts"
    /\ "Category" \in file.cols
    /\ Kinds = <<"region", "trend">>

ProductsInView == {p \in Range(ProductNames) : \E i \in Range(df_filtered) : df[i].Product = p}
ProductTotal(p) ==
    SumSet({i \in Range(df_filtered) : df[i].Product = p},
           [i \in DOMAIN df |-> IF df[i].Sales.k = "num" THEN df[i].Sales.n ELSE 0])
Chosen == {top_products[k].Product : k \in DOMAIN top_products}
StrictlyFalling ==
    \A p, q \in ProductsInView : Rank(p) < Rank(q) => ProductTotal(p) > ProductTotal(q)

\* C8: with Product and Sales columns the top products are min(10, number
\* of products) distinct products, each with the sum of its sales, listed
\* in descending order of sum, and no product left out has a sum greater
\* than one listed; when the totals fall strictly from product to product,
\* the list is the first ones (10 of 15), in that order.
C8_TopProducts ==
    (pc = "export" /\ "Product" \in file.cols /\ "Sales" \in file.cols) =>
        /\ Len(top_products) = Min(10, Cardinality(ProductsInView))
        /\ Cardinality(Chosen) = Len(top_products)
        /\ Chosen \subseteq ProductsInView
        /\ \A k \in DOMAIN top_products :
              top_products[k].Sales = ProductTotal(top_products[k].Product)
        /\ \A k \in DOMAIN top_products :
              k < Len(top_products) => top_products[k].Sales >= top_products[k + 1].Sales
        /\ \A p \in ProductsInView \ Chosen, q \in Chosen : ProductTotal(p) <= ProductTotal(q)
        /\ StrictlyFalling =>
              \A k \in DOMAIN top_products :
                  Cardinality({p \in ProductsInView : Rank(p) < Rank(top_products[k].Product)}) = k - 1

\* C8 witness: 15 products with strictly falling totals, 10 of them listed.
C8_Witness ==
    /\ pc = "export"
    /\ Cardinality(ProductsInView) = 15
    /\ StrictlyFalling
    /\ Len(top_products) = 10

\* The lines of the report up to the footer, written out: banner, time
\* stamp, blank, metrics header, the four metrics, blank, insights header,
\* then the numbered insights or the placeholder.
WholeNumber(n) == [num |-> n, den |-> 1]
ReportHead ==
    <<Text("=================================="),
      Text("    RETAIL ANALYTICS REPORT"),
      Text("=================================="),
      Text("Generated on: %Y-%m-%d %H:%M"),
      Text(""),
      Text("----- KEY METRICS -----"),
      Metric("Total Sales      : $", WholeNumber(total_sales)),
      Metric("Total Orders     : ", WholeNumber(total_orders)),
      Metric("Avg Order Value  : $", avg_order_value),
      Metric("Total Profit     : $", WholeNumber(total_profit)),
      Text(""),
      Text("----- INSIGHTS -----")>>
ReportBody ==
    IF insights = <<>>
    THEN <<Text("No insights available.")>>
    ELSE [i \in 1..Len(insights) |-> Line("insight", i, Zero, insights[i])]
ReportAsked == pc = "footer" /\ "report_link" \in Range(out)

\* C10 as stated: the report is the banner, time stamp, blank line, metrics
\* header, four metric lines, blank line, insights header, the numbered
\* insights or the placeholder, and then the footer line.
C10_LayoutFooterAfterInsights ==
    ReportAsked => report = ReportHead \o ReportBody \o <<Text("----- END OF REPORT -----")>>

\* C10 as amended: the same sequence of lines, with one blank line between
\* the last insight line (or the placeholder) and the footer line, which is
\* the last line; without the button no report is made.
C10_LayoutBlankBeforeFooter ==
    /\ ReportAsked =>
          /\ report = ReportHead \o ReportBody
                        \o <<Text(""), Text("----- END OF REPORT -----")>>
          /\ report[Len(report)] = Text("----- END OF REPORT -----")
    /\ (pc = "footer" /\ "report_link" \notin Range(out)) => report = <<>>

\* C10 witness: a report made from three insights.
C10_Witness == ReportAsked /\ Len(insights) = 3 /\ Len(report) = 17

\* The section that emits each piece of page output; 0 is the part of the
\* script before the try block.
OutputStage(tag) ==
    CASE tag \in {"title", "uploader"} -> 0
      [] tag \in {"success", "shape", "head"} -> 1
      [] tag \in {"warn_dates_unparsed", "info_dates_parsed", "warn_no_orderdate"} -> 2
      [] tag = "warn_date_range" -> 3
      [] tag = "warn_no_category" -> 4
      [] tag = "warn_no_region" -> 5
      [] tag = "metrics" -> 6
      [] tag \in {"insight", "no_insights"} -> 7
      [] tag \in {"chart_time", "warn_time", "chart_top", "warn_top", "chart_Category",
                  "warn_Category", "chart_Region", "warn_Region", "chart_corr"} -> 8
      [] tag \in {"csv_download", "report_link", "raw_table"} -> 9
      [] OTHER -> 10
ErrorAt == CHOOSE i \in DOMAIN out : out[i] = "error"

\* What a run that failed in section `raised` leaves: the error shown once,
\* as the last thing before the footer, after output of earlier sections
\* only, and nothing computed by the failing section or a later one.
FailureContained ==
    /\ pc \in {"footer", "done"}
    /\ Cardinality({i \in DOMAIN out : out[i] = "error"}) = 1
    /\ Cardinality({i \in DOMAIN out : out[i] = "code"}) = 1
    /\ ErrorAt < Len(out) /\ out[ErrorAt + 1] = "code"
    /\ \A i \in DOMAIN out : i > ErrorAt + 1 => out[i] = "footer"
    /\ \A i \in DOMAIN out : i < ErrorAt => OutputStage(out[i]) < StageNo(raised)
    /\ StageNo(raised) <= StageNo("load") => df = <<>>
    /\ StageNo(raised) <= StageNo("date") => df_filtered = <<>> /\ date_range = <<>>
    /\ StageNo(raised) <= StageNo("category") => categories = {}
    /\ StageNo(raised) <= StageNo("region") => regions = {}
    /\ StageNo(raised) <= StageNo("kpis") =>
          total_sales = 0 /\ total_orders = 0 /\ avg_order_value = Zero /\ total_profit = 0
    /\ StageNo(raised) <= StageNo("insights") => insights = <<>> /\ sales_over_time = <<>>
    /\ StageNo(raised) <= StageNo("charts") => top_products = <<>>
    /\ report = <<>>

\* What a section of a run works on is a function of the file and the
\* selections of that run alone.
RunOnOwnInputs ==
    /\ pc \in {"date", "category", "region", "kpis", "insights", "charts", "export"}
          => df = Prepare(file.cols, file.rows)
    /\ FiltersDone => Range(df_filtered) = PassingSet
    /\ InsightsDone => Len(insights) <= 3

NothingRetained ==
    pc = "done" =>
        /\ df = <<>> /\ df_filtered = <<>> /\ date_range = <<>>
        /\ categories = {} /\ regions = {}
        /\ insights = <<>> /\ top_products = <<>> /\ report = <<>>
        /\ total_sales = 0 /\ total_orders = 0 /\ total_profit = 0

\* C9: an exception raised in any section of a run is caught by the one
\* outer handler and shown once; no later section runs or emits output in
\* that run; nothing of the run is retained; and the next interaction
\* starts the script from its first line, working on its own file and
\* selections only.
C9_FailureEndsRunOnly ==
    /\ [](raised # "none" => FailureContained)
    /\ [](raised = "none" => "error" \notin Range(out))
    /\ []NothingRetained
    /\ []RunOnOwnInputs
    /\ [][(pc = "done" /\ pc' # "done") => Fresh']_vars

\* C9 witness: a run that failed in the insights section has ended with the
\* metrics on the page and the error after them.
C9_Witness ==
    /\ pc = "done"
    /\ raised = "insights"
    /\ "metrics" \in Range(out)
    /\ out[Len(out) - 2] = "error"

====
